---- MODULE Spec2Model ----
(***************************************************************************)
(* Model of the LFJ liquidity rebalancer: the position store               *)
(* (db/database.py), the pool gateway and reconciliation                   *)
(* (contracts/pool.py) and the rebalance decision, executor and monitor    *)
(* loop (auto_rebalance.py).  One wallet, one pool (POOL_ADDRESS), so the  *)
(* wallet and pool columns of the store are left out of the rows.          *)
(***************************************************************************)
EXTENDS Integers, Sequences, FiniteSets, TLC

(***************************************************************************)
(* Bounds of the model.                                                    *)
(***************************************************************************)
MaxBin == 3          \* bin ids are 0..MaxBin
MaxWei == 3          \* largest on-chain LP balance (in wei) of one bin
MaxRows == 3         \* rows of the positions table
MaxOps == 3          \* rows of the operations table
MaxLen == 3          \* longest position list handed to should_rebalance

Bins == 0..MaxBin
ActiveIds == 1..(MaxBin - 1)
NoBin == 0 - 1       \* bin_id = None of an operations row

(***************************************************************************)
(* Program constants.  Amounts are scaled so that TLC can enumerate them:  *)
(* LP tokens have LP_DECIMALS = 1 decimal instead of 18 (10 ** 18 becomes  *)
(* LP_SCALE = 10), and a Python float keeps MantBits significant bits      *)
(* instead of 53.  A float is held as an integer count of 2^-FracBits.     *)
(* DEFAULT_BIN_SCAN_RANGE is 1 instead of 10, and the default scan_range   *)
(* of get_all_lp_balances (LP_SCAN_RANGE) is 2 instead of 50, so that the  *)
(* scan windows are proper parts of the modelled bin range.                *)
(* DISTANCE_THRESHOLD has its value of the source.                         *)
(***************************************************************************)
DISTANCE_THRESHOLD == 2
DEFAULT_BIN_SCAN_RANGE == 1
LP_SCALE == 10
MantBits == 2
FracBits == 5
EPSILON == 0         \* 0.000001 LP, below the resolution of the scaled amounts

RECURSIVE Pow2(_)
Pow2(n) == IF n = 0 THEN 1 ELSE 2 * Pow2(n - 1)

Abs(x) == IF x < 0 THEN 0 - x ELSE x

\* The exponent of num/den: the least e >= 0 with num/den < 2^(MantBits+e).
RECURSIVE Expo(_, _, _)
Expo(num, den, e) ==
    IF num < den * Pow2(MantBits + e) THEN e ELSE Expo(num, den, e + 1)

\* num/d rounded to an integer, ties to even (IEEE 754).
RoundInt(num, d) ==
    LET m == num \div d
        r == num % d
    IN  IF (2 * r > d) \/ (2 * r = d /\ m % 2 = 1) THEN m + 1 ELSE m

\* num/den rounded to a multiple of 2^e.
RoundAt(num, den, e) == RoundInt(num, den * Pow2(e)) * Pow2(e)

\* num/den rounded to MantBits significant bits.
RoundRat(num, den) == RoundAt(num, den, Expo(num, den, 0))

\* balance / (10 ** 18): the float LP balance of a wei balance.
FromWei(balance) == RoundRat(balance * Pow2(FracBits), LP_SCALE)

\* int(lp_balance * (10 ** 18)): the wei amount of a float LP balance.
ToWei(lp_balance) == RoundRat(lp_balance * LP_SCALE, 1) \div Pow2(FracBits)

(***************************************************************************)
(* Rebalance decision engine (auto_rebalance.py).                          *)
(***************************************************************************)
get_optimal_bin_above(active_id, token_type) == active_id + 1

get_optimal_bin(active_id, token_type) ==
    IF token_type = "WAVAX" THEN active_id + 1 ELSE active_id - 1

breaches_beyond(bin_id, active_id) ==
    bin_id - active_id >= DISTANCE_THRESHOLD

breaches_near(bin_id, active_id) ==
    Abs(bin_id - active_id) >= DISTANCE_THRESHOLD - 1

breaches_strict(bin_id, active_id) ==
    Abs(bin_id - active_id) > DISTANCE_THRESHOLD

\* Lines 66-69: the position's distance reaches the threshold.
breaches(bin_id, active_id) ==
    Abs(bin_id - active_id) >= DISTANCE_THRESHOLD

\* Index of the last position at distance >= DISTANCE_THRESHOLD up to i.
RECURSIVE last_breach(_, _, _)
last_breach(positions, active_id, i) ==
    IF i > Len(positions) THEN 0
    ELSE IF last_breach(positions, active_id, i + 1) > 0
    THEN last_breach(positions, active_id, i + 1)
    ELSE IF breaches(positions[i].bin_id, active_id) THEN i
    ELSE 0

\* Index of the first position at distance >= DISTANCE_THRESHOLD from i on,
\* 0 when there is none: the for loop of should_rebalance.
RECURSIVE first_breach(_, _, _)
first_breach(positions, active_id, i) ==
    IF i > Len(positions) THEN 0
    ELSE IF breaches(positions[i].bin_id, active_id) THEN i
    ELSE first_breach(positions, active_id, i + 1)

should_rebalance(positions, active_id) ==
    IF positions = << >>
    THEN [rebalance |-> FALSE, reason |-> "No positions found",
          bin_id |-> NoBin, distance |-> 0]
    ELSE LET i == first_breach(positions, active_id, 1)
         IN  IF i > 0
             THEN [rebalance |-> TRUE, reason |-> "Position is away from active bin",
                   bin_id |-> positions[i].bin_id,
                   distance |-> Abs(positions[i].bin_id - active_id)]
             ELSE [rebalance |-> FALSE,
                   reason |-> "All positions are within threshold distance",
                   bin_id |-> NoBin, distance |-> 0]

(***************************************************************************)
(* Position store (db/database.py).  A row id is the row's index in the    *)
(* positions table (INTEGER PRIMARY KEY AUTOINCREMENT); rows are never     *)
(* deleted.                                                                *)
(***************************************************************************)
add_position(rs, bin_id, amount) ==
    Append(rs, [bin_id |-> bin_id, amount |-> amount, active |-> TRUE])

update_position(rs, position_id, new_amount, active) ==
    IF position_id \in 1..Len(rs)
    THEN [rs EXCEPT ![position_id] =
              [@ EXCEPT !.amount = new_amount, !.active = active]]
    ELSE rs

deactivate_position_noop(rs, position_id) == rs

deactivate_position_flag_only(rs, position_id) ==
    update_position(rs, position_id, rs[position_id].amount, FALSE)

deactivate_position(rs, position_id) ==
    update_position(rs, position_id, 0, FALSE)

\* The ids of the active rows, in rowid order.
get_active_positions(rs) ==
    SelectSeq([i \in 1..Len(rs) |-> i], LAMBDA i : rs[i].active)

get_position_by_bin_any(rs, bin_id) ==
    LET found == {i \in 1..Len(rs) : rs[i].bin_id = bin_id}
    IN  IF found = {} THEN 0
        ELSE CHOOSE i \in found : \A j \in found : i <= j

\* The id of the first active row of the bin, 0 for None.
get_position_by_bin(rs, bin_id) ==
    LET found == {i \in 1..Len(rs) : rs[i].active /\ rs[i].bin_id = bin_id}
    IN  IF found = {} THEN 0
        ELSE CHOOSE i \in found : \A j \in found : i <= j

record_operation_latest(os, operation_type, bin_id) ==
    << [operation_type |-> operation_type] >>

\* Of an operations row the model keeps the operation_type column.
record_operation(os, operation_type, bin_id) ==
    Append(os, [operation_type |-> operation_type])

(***************************************************************************)
(* Pool gateway reads (contracts/pool.py).  lpc is the wallet's on-chain   *)
(* LP balance per bin, in wei; a bin outside the modelled range holds      *)
(* nothing.                                                                *)
(***************************************************************************)
balanceOf(lpc, bin_id) == IF bin_id \in DOMAIN lpc THEN lpc[bin_id] ELSE 0

get_lp_balance(lpc, bin_id) == FromWei(balanceOf(lpc, bin_id))

Position(lpc, bin_id, active_id) ==
    [bin_id |-> bin_id,
     lp_balance |-> FromWei(balanceOf(lpc, bin_id)),
     distance_from_active |-> bin_id - active_id]

Max(a, b) == IF a >= b THEN a ELSE b

scan_start_unclipped(active_id, scan_range) == active_id - scan_range

\* Line 185: start_bin = max(0, active_id - scan_range).
scan_start(active_id, scan_range) == Max(0, active_id - scan_range)

scan_end(active_id, scan_range) == active_id + scan_range

verify_row_keeps_empty(rs, id, lpc, fails) ==
    IF rs[id].bin_id \in fails \/ balanceOf(lpc, rs[id].bin_id) = 0 THEN rs
    ELSE update_position(rs, id, FromWei(balanceOf(lpc, rs[id].bin_id)), TRUE)

verify_row_drops_unread(rs, id, lpc, fails) ==
    IF rs[id].bin_id \in fails \/ balanceOf(lpc, rs[id].bin_id) = 0
    THEN deactivate_position(rs, id)
    ELSE update_position(rs, id, FromWei(balanceOf(lpc, rs[id].bin_id)), TRUE)

\* Body of the loop over db_positions for one stored row: the store after
\* the live check of the row's bin (fails: the bins whose read raises).
verify_row(rs, id, lpc, fails) ==
    LET bin_id == rs[id].bin_id
        balance == balanceOf(lpc, bin_id)
    IN  IF bin_id \in fails THEN rs
        ELSE IF balance > 0
        THEN IF Abs(rs[id].amount - FromWei(balance)) > EPSILON
             THEN update_position(rs, id, FromWei(balance), TRUE)
             ELSE rs
        ELSE deactivate_position(rs, id)

\* The loop over db_positions (the row ids read before the loop), from its
\* i-th element on.
RECURSIVE verify_db_positions(_, _, _, _, _, _, _)
verify_db_positions(db_positions, i, active_id, lpc, fails, rs, positions) ==
    IF i > Len(db_positions) THEN [positions |-> positions, rows |-> rs]
    ELSE LET id == db_positions[i]
             bin_id == rs[id].bin_id
             emit == bin_id \notin fails /\ balanceOf(lpc, bin_id) > 0
         IN  verify_db_positions(db_positions, i + 1, active_id, lpc, fails,
                 verify_row(rs, id, lpc, fails),
                 IF emit THEN Append(positions, Position(lpc, bin_id, active_id))
                 ELSE positions)

scan_track_always(rs, bin_id, lpc, use_db_first) ==
    add_position(rs, bin_id, FromWei(balanceOf(lpc, bin_id)))

scan_track_once(rs, bin_id, lpc, use_db_first) ==
    IF use_db_first /\ get_active_positions(rs) = << >>
    THEN add_position(rs, bin_id, FromWei(balanceOf(lpc, bin_id)))
    ELSE rs

\* The store after the scan found a positive balance in bin_id.
scan_track(rs, bin_id, lpc, use_db_first) ==
    IF use_db_first /\ get_position_by_bin(rs, bin_id) = 0
    THEN add_position(rs, bin_id, FromWei(balanceOf(lpc, bin_id)))
    ELSE rs

\* Line 190: the balanceOf call of the scan for bin_id; r is what the rest
\* of the loop yields.
checking(bin_id, r) == [r EXCEPT !.checked = @ \cup {bin_id}]

\* The loop over range(start_bin, end_bin + 1), from bin_id on: the
\* positions, the store and the bin ids whose balance it asked for.
RECURSIVE scan_bins(_, _, _, _, _, _, _, _)
scan_bins(bin_id, end_bin, active_id, lpc, fails, use_db_first, rs, positions) ==
    IF bin_id > end_bin
    THEN [positions |-> positions, rows |-> rs, checked |-> {}]
    ELSE IF bin_id \in fails \/ balanceOf(lpc, bin_id) = 0
    THEN checking(bin_id,
             scan_bins(bin_id + 1, end_bin, active_id, lpc, fails,
                       use_db_first, rs, positions))
    ELSE checking(bin_id,
             scan_bins(bin_id + 1, end_bin, active_id, lpc, fails,
                       use_db_first,
                       scan_track(rs, bin_id, lpc, use_db_first),
                       Append(positions, Position(lpc, bin_id, active_id))))

cache_trusted_when_two(positions) == Len(positions) > 1

cache_trusted_never(positions) == FALSE

\* Line 178: the cache path's result is returned when it is not empty.
cache_trusted(positions) == positions # << >>

\* Lines 141-144: the cache path is taken when the store has active rows.
db_first(rs, use_db_first) ==
    use_db_first /\ get_active_positions(rs) # << >>

\* Lines 141-175: the positions and the store after the cache path.
cache_path(rs, lpc, chain_active, use_db_first, rd) ==
    IF db_first(rs, use_db_first)
    THEN verify_db_positions(get_active_positions(rs), 1, chain_active, lpc,
                             rd.fails1, rs, << >>)
    ELSE [positions |-> << >>, rows |-> rs]

\* Line 217: what the scan returns.
scan_returns(scanned) ==
    [raised |-> FALSE, positions |-> scanned.positions,
     rows |-> scanned.rows, scan |-> TRUE, checked |-> scanned.checked]

\* Lines 177-217: the cache path's positions are returned when there are
\* any; otherwise the bins around the active bin are scanned.
full_scan(cached, lpc, chain_active, scan_range, use_db_first, rd) ==
    IF cache_trusted(cached.positions)
    THEN [raised |-> FALSE, positions |-> cached.positions,
          rows |-> cached.rows, scan |-> FALSE, checked |-> {}]
    ELSE IF rd.active_raises = 2
    THEN [raised |-> TRUE, positions |-> << >>, rows |-> cached.rows,
          scan |-> FALSE, checked |-> {}]
    ELSE scan_returns(scan_bins(scan_start(chain_active, scan_range),
                                scan_end(chain_active, scan_range),
                                chain_active, lpc, rd.fails2, use_db_first,
                                cached.rows, cached.positions))

\* get_all_lp_balances.  rd describes the live reads of this call:
\* rd.fails1 / rd.fails2 are the bins whose balanceOf/getBin call raises on
\* the cache path / the scan path, rd.active_raises is 1 / 2 when
\* get_active_bin raises at line 146 / line 184 (0: it does not raise).
\* The result says whether the call raised, what it returned, the store it
\* left and whether it scanned.
get_all_lp_balances(rs, lpc, chain_active, scan_range, use_db_first, rd) ==
    IF db_first(rs, use_db_first) /\ rd.active_raises = 1
    THEN [raised |-> TRUE, positions |-> << >>, rows |-> rs, scan |-> FALSE,
          checked |-> {}]
    ELSE full_scan(cache_path(rs, lpc, chain_active, use_db_first, rd),
                   lpc, chain_active, scan_range, use_db_first, rd)

(***************************************************************************)
(* Pool gateway writes (contracts/pool.py).  A write sends its transaction *)
(* and waits for the receipt.  The outcome of a transaction is an input:   *)
(* "ok" (mined, status 1), "revert" (mined, status 0), "raise" (an         *)
(* exception before it was sent) or "pending" (it was sent and             *)
(* wait_for_transaction_receipt raised: the node did not answer, or the    *)
(* receipt was not there in time).  A write returns what it returned, the  *)
(* store and the chain it left, the transactions it sent, whether its      *)
(* liquidity transaction was mined with status 1 and whether the last      *)
(* transaction it sent is still in flight.  What becomes of a transaction  *)
(* in flight after the write has returned is left out.                     *)
(***************************************************************************)
WAVAX == "WAVAX"
BTCB == "BTC.b"

\* What the allowance call of approve_token (lines 249-254) found: the
\* allowance covers the amount, it is short of it, or the call was not
\* reached (an exception is taken to come before it; one that comes after
\* a short allowance sends no transaction either).
allowance(outcome) ==
    IF outcome = "sufficient" THEN "covers"
    ELSE IF outcome \in {"ok", "revert", "pending"} THEN "short"
    ELSE "unread"

approve_token_always(token, outcome) ==
    [ok |-> outcome \in {"sufficient", "ok"},
     txs |-> IF outcome \in {"sufficient", "ok", "revert", "pending"}
             THEN << [tx |-> "approve", token |-> token] >> ELSE << >>,
     allowance |-> allowance(outcome), in_flight |-> outcome = "pending"]

\* approve_token: no transaction when the allowance already covers the
\* amount ("sufficient"); otherwise one approve transaction.
approve_token(token, outcome) ==
    [ok |-> outcome \in {"sufficient", "ok"},
     txs |-> IF outcome \in {"ok", "revert", "pending"}
             THEN << [tx |-> "approve", token |-> token] >> ELSE << >>,
     allowance |-> allowance(outcome), in_flight |-> outcome = "pending"]

\* An approve_token call that is not made (the amount is 0).
NoApproval ==
    [ok |-> TRUE, txs |-> << >>, allowance |-> "unread", in_flight |-> FALSE]

\* approve_lp_tokens: always one setApprovalForAll transaction.
approve_lp_tokens(outcome) ==
    [ok |-> outcome = "ok",
     txs |-> IF outcome \in {"ok", "revert", "pending"}
             THEN << [tx |-> "approve_lp", token |-> "LP"] >> ELSE << >>,
     in_flight |-> outcome = "pending"]

Failed_recorded(rs, os, lpc, sent) ==
    [ret |-> FALSE, rows |-> rs, ops |-> record_operation(os, "remove_all", NoBin),
     lp |-> lpc, txs |-> sent, mined |-> FALSE]

Failed_reports_true(rs, os, lpc, sent) ==
    [ret |-> TRUE, rows |-> rs, ops |-> os, lp |-> lpc, txs |-> sent,
     mined |-> FALSE]

\* A write that returns False without a mined liquidity transaction: the
\* store and the chain are as the write found them.
Failed(rs, os, lpc, sent) ==
    [ret |-> FALSE, rows |-> rs, ops |-> os, lp |-> lpc, txs |-> sent,
     mined |-> FALSE]

\* Lines 402-413: the row of the bin after a confirmed add.
add_upsert(rs, lpc, bin_id) ==
    LET pos == get_position_by_bin(rs, bin_id)
    IN  IF pos # 0 THEN update_position(rs, pos, get_lp_balance(lpc, bin_id), TRUE)
        ELSE add_position(rs, bin_id, get_lp_balance(lpc, bin_id))

\* add_liquidity(bin_id, avax_amount, btc_amount).  e: the approvals'
\* outcomes, the transaction's outcome, the LP wei it mints and the call
\* that raises after the receipt ("none", "record_operation",
\* "get_lp_balance").  The result also says what the allowance call of
\* each token found and whether the approvals it asked for returned True.
add_liquidity(rs, os, lpc, bin_id, avax_amount, btc_amount, e) ==
    LET a1 == IF avax_amount > 0 THEN approve_token(WAVAX, e.approve_avax)
              ELSE NoApproval
        a2 == IF btc_amount > 0 /\ a1.ok
              THEN approve_token(BTCB, e.approve_btc)
              ELSE NoApproval
        approvals == [allowance |-> [avax |-> a1.allowance,
                                     btc |-> a2.allowance],
                      approved |-> a1.ok /\ a2.ok,
                      in_flight |-> \/ a1.in_flight
                                    \/ a2.in_flight
                                    \/ (a1.ok /\ a2.ok /\ e.tx = "pending")]
        addtx == << [tx |-> "add", token |-> IF avax_amount > 0 THEN WAVAX ELSE BTCB] >>
        lp2 == [lpc EXCEPT ![bin_id] = @ + e.minted]
        os2 == record_operation(os, "add", bin_id)
    IN  approvals @@
        (IF ~a1.ok THEN Failed(rs, os, lpc, a1.txs)
         ELSE IF ~a2.ok THEN Failed(rs, os, lpc, a1.txs \o a2.txs)
         ELSE IF e.tx = "raise" THEN Failed(rs, os, lpc, a1.txs \o a2.txs)
         ELSE IF e.tx \in {"revert", "pending"}
         THEN Failed(rs, os, lpc, a1.txs \o a2.txs \o addtx)
         ELSE IF e.post = "record_operation"
         THEN [ret |-> FALSE, rows |-> rs, ops |-> os, lp |-> lp2,
               txs |-> a1.txs \o a2.txs \o addtx, mined |-> TRUE]
         ELSE IF e.post = "get_lp_balance"
         THEN [ret |-> FALSE, rows |-> rs, ops |-> os2, lp |-> lp2,
               txs |-> a1.txs \o a2.txs \o addtx, mined |-> TRUE]
         ELSE [ret |-> TRUE, rows |-> add_upsert(rs, lp2, bin_id),
               ops |-> os2, lp |-> lp2,
               txs |-> a1.txs \o a2.txs \o addtx, mined |-> TRUE])

\* The router burns amounts[i] LP wei of bin_ids[i]; it reverts when an
\* amount exceeds the balance.
burnable(lpc, bin_ids, amounts) ==
    \A i \in 1..Len(bin_ids) : amounts[i] <= balanceOf(lpc, bin_ids[i])

burn(lpc, bin_ids, amounts) ==
    [b \in DOMAIN lpc |->
        IF \E i \in 1..Len(bin_ids) : bin_ids[i] = b
        THEN lpc[b] - amounts[CHOOSE i \in 1..Len(bin_ids) : bin_ids[i] = b]
        ELSE lpc[b]]

\* Lines 502-511: the row of the bin after a confirmed single remove.
remove_sync(rs, lpc, bin_id) ==
    LET pos == get_position_by_bin(rs, bin_id)
    IN  IF pos = 0 THEN rs
        ELSE IF get_lp_balance(lpc, bin_id) <= 0 THEN deactivate_position(rs, pos)
        ELSE update_position(rs, pos, get_lp_balance(lpc, bin_id), TRUE)

\* remove_liquidity(bin_id, liquidity_amount): liquidity_amount is a float,
\* 0 for all of the bin.  e: the LP approval's and the transaction's
\* outcome and the call that raises after the receipt.
remove_liquidity(rs, os, lpc, bin_id, liquidity_amount, e) ==
    LET amount == IF liquidity_amount <= 0 THEN get_lp_balance(lpc, bin_id)
                  ELSE liquidity_amount
        liquidity_wei == ToWei(amount)
        a == approve_lp_tokens(e.approve_lp)
        rmtx == << [tx |-> "remove", token |-> "LP"] >>
        lp2 == burn(lpc, << bin_id >>, << liquidity_wei >>)
        os2 == record_operation(os, "remove", bin_id)
    IN  [in_flight |-> /\ amount > 0
                       /\ (a.in_flight \/ (a.ok /\ e.tx = "pending"))]
        @@
        (IF amount <= 0 THEN Failed(rs, os, lpc, << >>)
         ELSE IF ~a.ok THEN Failed(rs, os, lpc, a.txs)
         ELSE IF e.tx = "raise" THEN Failed(rs, os, lpc, a.txs)
         ELSE IF \/ e.tx \in {"revert", "pending"}
                 \/ ~burnable(lpc, << bin_id >>, << liquidity_wei >>)
         THEN Failed(rs, os, lpc, a.txs \o rmtx)
         ELSE IF e.post = "record_operation"
         THEN [ret |-> FALSE, rows |-> rs, ops |-> os, lp |-> lp2,
               txs |-> a.txs \o rmtx, mined |-> TRUE]
         ELSE IF e.post = "get_lp_balance"
         THEN [ret |-> FALSE, rows |-> rs, ops |-> os2, lp |-> lp2,
               txs |-> a.txs \o rmtx, mined |-> TRUE]
         ELSE [ret |-> TRUE, rows |-> remove_sync(rs, lp2, bin_id),
               ops |-> os2, lp |-> lp2, txs |-> a.txs \o rmtx,
               mined |-> TRUE])

\* Lines 604-608: every removed position's active row is deactivated.
RECURSIVE deactivate_all(_, _, _)
deactivate_all(rs, positions, i) ==
    IF i > Len(positions) THEN rs
    ELSE LET db_pos == get_position_by_bin(rs, positions[i].bin_id)
         IN  deactivate_all(IF db_pos # 0 THEN deactivate_position(rs, db_pos)
                            ELSE rs, positions, i + 1)

remove_all_use_db_first == TRUE

\* Lines 545-618: remove_all_liquidity from the positions got has resolved,
\* with the arrays of lines 554-563.
remove_batch(got, bin_ids, amounts, os, lpc, e) ==
    LET positions == got.positions
        a == approve_lp_tokens(e.approve_lp)
        rmtx == << [tx |-> "remove", token |-> "LP"] >>
        lp2 == burn(lpc, bin_ids, amounts)
        os2 == record_operation(os, "remove_all", NoBin)
        none == [got |-> got, bin_ids |-> << >>, amounts |-> << >>,
                 status |-> "none", in_flight |-> FALSE]
        sent == [got |-> got, bin_ids |-> bin_ids, amounts |-> amounts,
                 status |-> "reverted", in_flight |-> FALSE]
        waiting == [got |-> got, bin_ids |-> bin_ids, amounts |-> amounts,
                    status |-> "pending", in_flight |-> TRUE]
        mined == [got |-> got, bin_ids |-> bin_ids, amounts |-> amounts,
                  status |-> "ok", in_flight |-> FALSE]
    IN  IF got.raised \/ positions = << >>
        THEN Failed(got.rows, os, lpc, << >>) @@ none
        ELSE IF ~a.ok
        THEN Failed(got.rows, os, lpc, a.txs)
             @@ [none EXCEPT !.in_flight = a.in_flight]
        ELSE IF e.tx = "raise" THEN Failed(got.rows, os, lpc, a.txs) @@ none
        ELSE IF e.tx = "pending"
        THEN Failed(got.rows, os, lpc, a.txs \o rmtx) @@ waiting
        ELSE IF e.tx = "revert" \/ ~burnable(lpc, bin_ids, amounts)
        THEN Failed(got.rows, os, lpc, a.txs \o rmtx) @@ sent
        ELSE IF e.post = "record_operation"
        THEN [ret |-> FALSE, rows |-> got.rows, ops |-> os, lp |-> lp2,
              txs |-> a.txs \o rmtx, mined |-> TRUE] @@ mined
        ELSE [ret |-> TRUE, rows |-> deactivate_all(got.rows, positions, 1),
              ops |-> os2, lp |-> lp2,
              txs |-> a.txs \o rmtx, mined |-> TRUE] @@ mined

\* Lines 554-563: the bin ids and the wei amounts of the positions.
remove_positions(got, os, lpc, e) ==
    remove_batch(got,
                 [i \in 1..Len(got.positions) |-> got.positions[i].bin_id],
                 [i \in 1..Len(got.positions) |->
                      ToWei(got.positions[i].lp_balance)],
                 os, lpc, e)

\* remove_all_liquidity(scan_range).  rd: the live reads of its
\* get_all_lp_balances call; e as for remove_liquidity.  The result also
\* carries the resolved positions and the arrays of the transaction.
remove_all_liquidity(rs, os, lpc, chain_active, scan_range, rd, e) ==
    remove_positions(get_all_lp_balances(rs, lpc, chain_active, scan_range,
                                         remove_all_use_db_first, rd),
                     os, lpc, e)

(***************************************************************************)
(* State.                                                                  *)
(*   activeId, lp  the chain: the pool's active bin and the wallet's LP    *)
(*                 balance (wei) per bin                                   *)
(*   rows, ops     the store: the positions and the operations table       *)
(*   pc            where the process is: "idle" (between operations), a    *)
(*                 step of rebalance_liquidity / add_initial_positions,    *)
(*                 "done" (an operation has just returned) or "exited"     *)
(*   call          the operation in progress or just returned: its locals, *)
(*                 what its last step observed, the tokens it has called   *)
(*                 add_liquidity for (adds), the on-chain token balances   *)
(*                 its budget was read from (avax_held, btc_held), the     *)
(*                 token amount of the add transaction its last step got   *)
(*                 mined (submitted), what the allowance calls of its last *)
(*                 add_liquidity found and whether its approvals returned  *)
(*                 True, how many transactions it has sent and not seen    *)
(*                 mined (inflight), whether something went wrong in its   *)
(*                 last write (fault), whether a live read of one of its   *)
(*                 reconciliations has failed (unread), and its result     *)
(*   txs           the transactions its last step has sent, in order       *)
(*   calls         the operations started so far                           *)
(*   fin, fout     arguments and result of a decision-engine function      *)
(*   menu          the interactive program (main.py) when it runs as a     *)
(*                 second process beside the monitor: where it is in an    *)
(*                 add_liquidity call and what that call has read          *)
(***************************************************************************)
VARIABLES activeId, lp, rows, ops, pc, call, txs, calls, fin, fout, menu

vars == << activeId, lp, rows, ops, pc, call, txs, calls, fin, fout, menu >>

MaxCalls == 2        \* operations (menu choices, monitor ticks) in one run;
                     \* a listing shown twice in a row counts once

MaxFails == 1        \* live reads that raise in one call
MaxHeld == 2         \* bins the wallet holds liquidity in at one time
MaxExternal == 1     \* bins holding liquidity the wallet got outside the program

Held(lpc) == {b \in Bins : lpc[b] > 0}

ChainOk(lpc) ==
    /\ \A b \in Bins : lpc[b] \in 0..MaxWei
    /\ Cardinality(Held(lpc)) <= MaxHeld

Few(S) == {T \in SUBSET S : Cardinality(T) <= MaxFails}

ReadEnv(f1, f2, r) == [fails1 |-> f1, fails2 |-> f2, active_raises |-> r]

Range(f) == {f[i] : i \in DOMAIN f}

ScanWindow(active_id, scan_range) ==
    {b \in Bins : b >= scan_start(active_id, scan_range)
                  /\ b <= scan_end(active_id, scan_range)}

\* The live reads a get_all_lp_balances call can meet.
ReadEnvs(rs, scan_range, use_db_first) ==
    LET tracked == IF use_db_first
                   THEN {rs[i].bin_id : i \in Range(get_active_positions(rs))}
                   ELSE {}
        window == ScanWindow(activeId, scan_range)
    IN  UNION {{ReadEnv(f1, f2, 0) :
                    f2 \in {f \in Few(window) :
                               Cardinality(f1) + Cardinality(f) <= MaxFails}} :
                 f1 \in Few(tracked)}
        \cup {ReadEnv({}, {}, r) : r \in {n \in 1..2 : MaxFails > 0}}

\* A live read of the call raised.
ReadFailed(rs, use_db_first, rd, got) ==
    \/ got.raised
    \/ use_db_first /\ get_active_positions(rs) # << >> /\ rd.fails1 # {}
    \/ got.scan /\ rd.fails2 # {}

WriteEnv(a, t, p) == [approve_lp |-> a, tx |-> t, post |-> p]

\* What can happen to a remove transaction and after it.
WriteEnvs ==
    {WriteEnv("revert", "raise", "none"), WriteEnv("raise", "raise", "none"),
     WriteEnv("pending", "raise", "none"),
     WriteEnv("ok", "raise", "none"), WriteEnv("ok", "revert", "none"),
     WriteEnv("ok", "pending", "none")}
    \cup {WriteEnv("ok", "ok", p) :
            p \in {"none", "record_operation", "get_lp_balance"}}

\* The remove_all transaction has no balance read after its receipt.
RemoveAllEnvs == {e \in WriteEnvs : e.post # "get_lp_balance"}

AddEnv(a, t, m, p) ==
    [approve_avax |-> a, approve_btc |-> a, tx |-> t, minted |-> m, post |-> p]

\* What can happen to an add transaction and after it; a mined add mints
\* LP wei that bring the bin's balance to MaxWei.
AddEnvs(balance) ==
    {AddEnv("revert", "raise", 0, "none"), AddEnv("raise", "raise", 0, "none"),
     AddEnv("pending", "raise", 0, "none")}
    \cup {AddEnv(a, t, 0, "none") :
            a \in {"sufficient", "ok"}, t \in {"revert", "raise", "pending"}}
    \cup {AddEnv(a, "ok", MaxWei - balance, p) :
            a \in {"sufficient", "ok"}, w \in {v \in {MaxWei} : v > balance},
            p \in {"none", "record_operation", "get_lp_balance"}}

\* Something went wrong in a remove: the LP approval or the transaction
\* raised, reverted or was not seen mined, or the bookkeeping after the
\* receipt raised (the paths to lines 455, 516, 518-521; 551, 613, 615-618).
WriteFault(e) == e.approve_lp # "ok" \/ e.tx # "ok" \/ e.post # "none"

\* Something went wrong in an add (the paths to lines 337, 346, 418,
\* 420-423).
AddFault(e) ==
    \/ e.approve_avax \notin {"sufficient", "ok"}
    \/ e.tx # "ok"
    \/ e.post # "none"

NoCall ==
    [op |-> "none", ret |-> "none", status |-> "none",
     active_id |-> 0, scan_range |-> 0, use_db_first |-> FALSE,
     positions |-> << >>, read_failed |-> FALSE, repeat |-> FALSE,
     prev_failed |-> FALSE, synced |-> FALSE, bin_ids |-> << >>, amounts |-> << >>,
     mined |-> "none", bin_id |-> NoBin, success |-> "none",
     cached |-> FALSE, scanned |-> FALSE, failed |-> {}, checked |-> {},
     avax_balance |-> 0, btc_balance |-> 0,
     avax_to_add |-> 0, btc_to_add |-> 0, success_count |-> 0,
     adds |-> << >>, avax_held |-> 0, btc_held |-> 0, submitted |-> 0,
     allowance |-> [avax |-> "unread", btc |-> "unread"], approved |-> "none",
     inflight |-> 0, fault |-> FALSE, unread |-> FALSE]

\* What a call returned, as the set of its (bin id, LP balance) pairs.
ResultSet(positions) ==
    {<< positions[i].bin_id, positions[i].lp_balance >> : i \in DOMAIN positions}

NoMenu == [pc |-> "idle", bin_id |-> NoBin, pos |-> 0, lp_balance |-> 0]

NoFin == [positions |-> << >>, active_id |-> 0, token_type |-> WAVAX]
NoFout == [fn |-> "none", rebalance |-> FALSE, reason |-> "", bin_id |-> NoBin,
           distance |-> 0, again |-> NoBin]

Init ==
    /\ activeId \in ActiveIds
    /\ lp \in {l \in [Bins -> {0, 1}] : Cardinality(Held(l)) <= MaxExternal}
    /\ rows = << >>
    /\ ops = << >>
    /\ pc = "idle"
    /\ call = NoCall
    /\ txs = << >>
    /\ calls = 0
    /\ fin = NoFin
    /\ fout = NoFout
    /\ menu = NoMenu

(***************************************************************************)
(* The environment: the pool trades and the active bin moves by one.  The  *)
(* liquidity the wallet got outside this program is there from the start.  *)
(***************************************************************************)
ActiveBinMoves ==
    /\ pc \notin {"done", "exited"}
    /\ \E a \in ActiveIds :
        /\ Abs(a - activeId) = 1
        /\ activeId' = a
    /\ UNCHANGED << lp, rows, ops, pc, call, txs, calls, fin, fout, menu >>

(***************************************************************************)
(* The operations of the interactive menu (main.py), each one call of the  *)
(* pool gateway.                                                           *)
(***************************************************************************)
LP_SCAN_RANGE == 2   \* get_all_lp_balances: scan_range: int = 50, scaled

\* The observation of a get_all_lp_balances call: its arguments and its
\* result, whether a live read failed, whether the cache path ran and the
\* bins whose live check failed on it, whether the scan ran and the bin
\* ids whose balance it asked for.
Observed(c, rs, scan_range, use_db_first, rd, got) ==
    [c EXCEPT !.scan_range = scan_range, !.use_db_first = use_db_first,
              !.positions = got.positions,
              !.read_failed = ReadFailed(rs, use_db_first, rd, got),
              !.cached = db_first(rs, use_db_first) /\ ~got.raised,
              !.scanned = got.scan,
              !.checked = got.checked,
              !.failed = IF db_first(rs, use_db_first) /\ ~got.raised
                         THEN rd.fails1 ELSE {}]

BoolRet(b) == IF b THEN "true" ELSE "false"

\* show_pool_info, view_positions_menu (use_db_first) and
\* scan_all_positions (a scan of every bin, not written to the store); also
\* a second such call right after the first.
GetAllLpBalances ==
    /\ \/ pc = "idle" /\ calls < MaxCalls /\ calls' = calls + 1
       \/ /\ pc = "done" /\ call.op = "get_all_lp_balances" /\ ~call.repeat
          /\ calls' = calls
    /\ \E use_db_first \in BOOLEAN :
       LET scan_range == IF use_db_first THEN LP_SCAN_RANGE ELSE MaxBin
       IN  \E rd \in ReadEnvs(rows, scan_range, use_db_first) :
           \E got \in {get_all_lp_balances(rows, lp, activeId, scan_range,
                                            use_db_first, rd)} :
               /\ rows' = got.rows
               /\ Len(rows') <= MaxRows
               /\ call' = [Observed(NoCall, rows, scan_range, use_db_first,
                                    rd, got) EXCEPT
                             !.op = "get_all_lp_balances",
                             !.ret = IF got.raised THEN "raised" ELSE "returned",
                             !.repeat = (pc = "done" /\ call.ret = "returned"
                                         /\ call.scan_range = scan_range
                                         /\ call.use_db_first = use_db_first
                                         /\ ~got.raised),
                             !.prev_failed = call.read_failed]
    /\ pc' = "done"
    /\ txs' = << >>
    /\ UNCHANGED << activeId, lp, ops, fin, fout, menu >>

\* add_liquidity_menu: one token into the bin the menu suggests for it
\* (lines 100-107).
AddLiquidity ==
    /\ pc = "idle"
    /\ calls < MaxCalls
    /\ calls' = calls + 1
    /\ \E token \in {WAVAX, BTCB} :
       LET bin_id == IF token = WAVAX THEN activeId + 1 ELSE activeId - 1
       IN  \E e \in AddEnvs(lp[bin_id]) :
           \E r \in {add_liquidity(rows, ops, lp, bin_id,
                                    IF token = WAVAX THEN 1 ELSE 0,
                                    IF token = BTCB THEN 1 ELSE 0, e)} :
               /\ rows' = r.rows /\ ops' = r.ops /\ lp' = r.lp /\ txs' = r.txs
               /\ Len(rows') <= MaxRows /\ Len(ops') <= MaxOps /\ ChainOk(lp')
               /\ call' = [NoCall EXCEPT
                             !.op = "add_liquidity", !.ret = BoolRet(r.ret),
                             !.allowance = r.allowance,
                             !.approved = BoolRet(r.approved),
                             !.inflight = IF r.in_flight THEN 1 ELSE 0,
                             !.fault = AddFault(e),
                             !.mined = IF r.mined THEN "add" ELSE "none",
                             !.bin_id = bin_id]
    /\ pc' = "done"
    /\ UNCHANGED << activeId, fin, fout, menu >>

\* remove_liquidity_menu: after the positions were listed (lines 175-186),
\* all (amount 0) or the listed balance of one listed position is removed.
RemoveLiquidity ==
    /\ pc = "done"
    /\ call.op = "get_all_lp_balances" /\ call.use_db_first
    /\ calls < MaxCalls
    /\ calls' = calls + 1
    /\ \E i \in DOMAIN call.positions, e \in WriteEnvs :
       \E amount \in {0, call.positions[i].lp_balance} :
       \E bin_id \in {call.positions[i].bin_id} :
       \E r \in {remove_liquidity(rows, ops, lp, bin_id, amount, e)} :
           /\ rows' = r.rows /\ ops' = r.ops /\ lp' = r.lp /\ txs' = r.txs
           /\ Len(rows') <= MaxRows /\ Len(ops') <= MaxOps /\ ChainOk(lp')
           /\ call' = [NoCall EXCEPT
                         !.op = "remove_liquidity", !.ret = BoolRet(r.ret),
                         !.inflight = IF r.in_flight THEN 1 ELSE 0,
                         !.fault = WriteFault(e),
                         !.mined = IF r.mined THEN "remove" ELSE "none",
                         !.bin_id = bin_id]
    /\ pc' = "done"
    /\ UNCHANGED << activeId, fin, fout, menu >>

\* remove_all_liquidity_menu: after the positions were listed (lines
\* 253-263) and the user confirmed, remove_all_liquidity with
\* scan_range = max(DEFAULT_BIN_SCAN_RANGE, 100), which covers every
\* modelled bin.
RemoveAllLiquidity ==
    /\ pc = "done"
    /\ call.op = "get_all_lp_balances" /\ call.use_db_first
    /\ call.positions # << >>
    /\ calls < MaxCalls
    /\ calls' = calls + 1
    /\ \E rd \in ReadEnvs(rows, MaxBin, remove_all_use_db_first),
          e \in RemoveAllEnvs :
       \E r \in {remove_all_liquidity(rows, ops, lp, activeId, MaxBin, rd, e)} :
           /\ rows' = r.rows /\ ops' = r.ops /\ lp' = r.lp /\ txs' = r.txs
           /\ Len(rows') <= MaxRows /\ Len(ops') <= MaxOps
           /\ call' = [NoCall EXCEPT
                         !.op = "remove_all_liquidity", !.ret = BoolRet(r.ret),
                         !.inflight = IF r.in_flight THEN 1 ELSE 0,
                         !.fault = r.got.raised \/ WriteFault(e),
                         !.read_failed = ReadFailed(rows, remove_all_use_db_first,
                                                    rd, r.got),
                         !.status = r.status, !.bin_ids = r.bin_ids,
                         !.amounts = r.amounts,
                         !.mined = IF r.mined THEN "remove_all" ELSE "none"]
    /\ pc' = "done"
    /\ UNCHANGED << activeId, fin, fout, menu >>

(***************************************************************************)
(* The rebalancer (auto_rebalance.py).  Wallet token balances are read     *)
(* from the chain at each use; a read is an input.  A float amount of      *)
(* WAVAX is counted in units of AVAX_RESERVE (0.000001), one of BTC.b in   *)
(* units of BTC_RESERVE (0.0000000001).  On chain the wallet holds BTC.b   *)
(* in satoshi (10 ** -8 BTC.b, SATOSHI units) and WAVAX in wei, which the  *)
(* model counts in multiples of 10 ** 12 wei (one unit).  A Python float   *)
(* of a token amount keeps TokenMantBits significant bits instead of 53:   *)
(* enough to hold every amount around the dust thresholds exactly, as 53   *)
(* bits are for everyday balances, and too few for the reserve next to a   *)
(* balance of MaxBtcSat, as 53 bits are next to a balance of some 10 ** 14 *)
(* satoshi.                                                                *)
(***************************************************************************)
AVAX_RESERVE == 1
BTC_RESERVE == 1
AVAX_DUST == 10000       \* 0.01 WAVAX
BTC_DUST == 1000000      \* 0.0001 BTC.b
SATOSHI == 100           \* 10 ** -BTCB_DECIMALS BTC.b
TokenMantBits == 21
TokenFrac == 7           \* fraction bits kept of a quotient

MaxBtcSat == 50000       \* largest BTC.b balance of the wallet, in satoshi

\* The exponent of num/den in a float of the given number of bits.
RECURSIVE ExpoOf(_, _, _, _)
ExpoOf(num, den, bits, e) ==
    IF num < den * Pow2(bits + e) THEN e ELSE ExpoOf(num, den, bits, e + 1)

\* The float nearest to an amount of n units.
TokenFloat(n) == RoundAt(n, 1, ExpoOf(n, 1, TokenMantBits, 0))

\* num/den as a float, in multiples of 2^-TokenFrac.
TokenQuotient(num, den) ==
    RoundAt(num * Pow2(TokenFrac), den,
            ExpoOf(num * Pow2(TokenFrac), den, TokenMantBits, 0))

\* The on-chain balances a read can return: WAVAX in units, BTC.b in
\* satoshi.
AvaxBalances == {0, AVAX_DUST, AVAX_DUST + 1, AVAX_DUST + 2}
BtcBalances ==
    {0, BTC_DUST \div SATOSHI, BTC_DUST \div SATOSHI + 1,
     BTC_DUST \div SATOSHI + 2, MaxBtcSat}

\* get_balance (pool.py lines 108-119) and the float() of its callers:
\* from_wei(balance, 'ether') for WAVAX, balance / (10 ** 8) for BTC.b.
get_balance(token, balance) ==
    IF token = WAVAX THEN TokenFloat(balance)
    ELSE TokenFloat(balance * SATOSHI)

\* The two get_balance calls: they return, or one of them raises.  avax
\* and btc are the floats the caller gets, avax_raw and btc_raw the
\* balances on chain.
BalanceReads ==
    {[raised |-> TRUE, avax |-> 0, btc |-> 0, avax_raw |-> 0, btc_raw |-> 0]}
    \cup {[raised |-> FALSE, avax |-> get_balance(WAVAX, a),
           btc |-> get_balance(BTCB, b), avax_raw |-> a, btc_raw |-> b] :
            a \in AvaxBalances, b \in BtcBalances}

\* Lines 196-197 (110-111): max(0, balance - reserve), in floats.
to_add(balance, reserve) == Max(0, TokenFloat(balance - reserve))

\* pool.py line 331: w3.to_wei(avax_amount, 'ether'), in units.
avax_wei(avax_amount) == avax_amount

\* pool.py line 340: int(btc_amount * (10 ** BTCB_DECIMALS)), in satoshi.
btc_wei(btc_amount) == TokenQuotient(btc_amount, SATOSHI) \div Pow2(TokenFrac)

has_tokens_at_dust(avax_balance, btc_balance) ==
    avax_balance >= AVAX_DUST \/ btc_balance >= BTC_DUST

phase1_aborts_never(success) == FALSE

\* rebalance_liquidity, lines 177-181: "if not success: return False".
phase1_aborts(success) == ~success

\* main(), lines 332-336: the wallet has tokens worth seeding.
has_tokens(avax_balance, btc_balance) ==
    avax_balance > AVAX_DUST \/ btc_balance > BTC_DUST

\* add_initial_positions, lines 101-103.
insufficient(avax_balance, btc_balance) ==
    avax_balance < AVAX_DUST /\ btc_balance < BTC_DUST

\* One iteration of the monitor loop (main(), lines 300-340) up to the call
\* of rebalance_liquidity or add_initial_positions.
Tick ==
    /\ pc = "idle"
    /\ calls < MaxCalls
    /\ calls' = calls + 1
    /\ txs' = << >>
    /\ \/ \* get_active_bin raises (line 302)
          /\ call' = [NoCall EXCEPT !.op = "tick", !.ret = "raised"]
          /\ pc' = "done"
          /\ rows' = rows
       \/ \E rd \in ReadEnvs(rows, LP_SCAN_RANGE, TRUE) :
          \E got \in {get_all_lp_balances(rows, lp, activeId, LP_SCAN_RANGE,
                                           TRUE, rd)} :
          LET seen == [Observed(NoCall, rows, LP_SCAN_RANGE, TRUE, rd, got)
                         EXCEPT !.active_id = activeId]
              should_rebal == should_rebalance(got.positions, activeId)
          IN  /\ rows' = got.rows
              /\ Len(rows') <= MaxRows
              /\ IF got.raised
                 THEN /\ call' = [seen EXCEPT !.op = "tick", !.ret = "raised"]
                      /\ pc' = "done"
                 ELSE IF got.positions # << >>
                 THEN IF should_rebal.rebalance
                      THEN /\ call' = [seen EXCEPT !.op = "rebalance_liquidity"]
                           /\ pc' = "withdraw"
                      ELSE /\ call' = [seen EXCEPT !.op = "tick",
                                                   !.ret = "no_rebalance"]
                           /\ pc' = "done"
                 ELSE \E bal \in BalanceReads :
                      IF bal.raised
                      THEN /\ call' = [seen EXCEPT !.op = "tick",
                                                   !.ret = "raised"]
                           /\ pc' = "done"
                      ELSE IF has_tokens(bal.avax, bal.btc)
                      THEN /\ call' = [seen EXCEPT
                                         !.op = "add_initial_positions",
                                         !.avax_balance = bal.avax,
                                         !.btc_balance = bal.btc]
                           /\ pc' = "seed"
                      ELSE /\ call' = [seen EXCEPT !.op = "tick",
                                                   !.ret = "insufficient",
                                                   !.avax_balance = bal.avax,
                                                   !.btc_balance = bal.btc]
                           /\ pc' = "done"
    /\ UNCHANGED << activeId, lp, ops, fin, fout, menu >>

\* The locals of the operation in progress that its remaining steps read,
\* without what its last step observed.
Local ==
    [NoCall EXCEPT !.op = call.op, !.active_id = call.active_id,
                   !.success = call.success,
                   !.avax_to_add = IF pc = "add_wavax" THEN 0
                                   ELSE call.avax_to_add,
                   !.btc_to_add = IF pc = "add_btc" THEN 0
                                  ELSE call.btc_to_add,
                   !.success_count = call.success_count,
                   !.adds = call.adds,
                   !.avax_held = IF pc = "add_wavax" THEN 0
                                 ELSE call.avax_held,
                   !.btc_held = IF pc = "add_btc" THEN 0 ELSE call.btc_held,
                   !.inflight = call.inflight,
                   !.unread = call.unread]

\* rebalance_liquidity, step 1 (lines 175-181): remove_all_liquidity.
Withdraw ==
    /\ pc = "withdraw"
    /\ \E rd \in ReadEnvs(rows, DEFAULT_BIN_SCAN_RANGE, remove_all_use_db_first),
          e \in RemoveAllEnvs :
       \E r \in {remove_all_liquidity(rows, ops, lp, activeId,
                                       DEFAULT_BIN_SCAN_RANGE, rd, e)} :
           /\ rows' = r.rows /\ ops' = r.ops /\ lp' = r.lp /\ txs' = r.txs
           /\ Len(rows') <= MaxRows /\ Len(ops') <= MaxOps
           /\ call' = [NoCall EXCEPT
                         !.op = call.op, !.active_id = call.active_id,
                         !.success = BoolRet(r.ret),
                         !.inflight = IF r.in_flight THEN 1 ELSE 0,
                         !.fault = r.got.raised \/ WriteFault(e),
                         !.read_failed = ReadFailed(rows, remove_all_use_db_first,
                                                    rd, r.got),
                         !.prev_failed = call.read_failed,
                         !.unread = \/ call.read_failed
                                    \/ ReadFailed(rows, remove_all_use_db_first,
                                                  rd, r.got),
                         !.synced = (r.got.rows # rows),
                         !.status = r.status, !.bin_ids = r.bin_ids,
                         !.amounts = r.amounts,
                         !.mined = IF r.mined THEN "remove_all" ELSE "none",
                         !.ret = IF phase1_aborts(r.ret) THEN "false" ELSE "none"]
           /\ pc' = IF phase1_aborts(r.ret) THEN "done" ELSE "budget"
    /\ UNCHANGED << activeId, calls, fin, fout, menu >>

\* rebalance_liquidity, step 2 (lines 183-199): the budget.
Budget ==
    /\ pc = "budget"
    /\ \E bal \in BalanceReads :
       IF bal.raised
       THEN /\ call' = [Local EXCEPT !.ret = "raised"]
            /\ pc' = "done"
       ELSE /\ call' = [Local EXCEPT
                          !.avax_to_add = to_add(bal.avax, AVAX_RESERVE),
                          !.btc_to_add = to_add(bal.btc, BTC_RESERVE),
                          !.avax_held = bal.avax_raw,
                          !.btc_held = bal.btc_raw]
            /\ pc' = "add_wavax"
    /\ txs' = << >>
    /\ UNCHANGED << activeId, lp, rows, ops, calls, fin, fout, menu >>

\* add_initial_positions up to its budget (lines 88-111).
Seed ==
    /\ pc = "seed"
    /\ \/ \* get_active_bin raises (line 90)
          /\ call' = [Local EXCEPT !.ret = "raised"]
          /\ pc' = "done"
       \/ \E bal \in BalanceReads :
          IF bal.raised
          THEN /\ call' = [Local EXCEPT !.ret = "raised"]
               /\ pc' = "done"
          ELSE IF insufficient(bal.avax, bal.btc)
          THEN /\ call' = [Local EXCEPT !.ret = "false",
                                        !.active_id = activeId]
               /\ pc' = "done"
          ELSE /\ call' = [Local EXCEPT
                             !.active_id = activeId,
                             !.avax_to_add = to_add(bal.avax, AVAX_RESERVE),
                             !.btc_to_add = to_add(bal.btc, BTC_RESERVE),
                             !.avax_held = bal.avax_raw,
                             !.btc_held = bal.btc_raw]
               /\ pc' = "add_wavax"
    /\ UNCHANGED << activeId, lp, rows, ops, txs, calls, fin, fout, menu >>

worth_adding_any(amount, threshold) == amount > 0

\* Lines 214 and 222 (128 and 136): the amount is above the dust threshold.
worth_adding(amount, threshold) == amount > threshold

result_both(success_count, remaining_raises) ==
    IF success_count > 1
    THEN IF remaining_raises THEN "raised" ELSE "true"
    ELSE "false"

\* Lines 229-242 (143-156): the result of rebalance_liquidity and of
\* add_initial_positions; the remaining balances are read when an add
\* succeeded, and the read may raise.
result(success_count, remaining_raises) ==
    IF success_count > 0
    THEN IF remaining_raises THEN "raised" ELSE "true"
    ELSE "false"

target_active_id_reread == activeId

\* Lines 203-204 (117-118): the active bin the optimal bins are taken from
\* is the local active_id, the argument of rebalance_liquidity (line 158)
\* or what add_initial_positions read at line 90.
target_active_id == call.active_id

\* One of the two adds of rebalance_liquidity (lines 213-227) and of
\* add_initial_positions (lines 127-141): the store, the chain, the
\* transactions and the locals after it; after the last one, the result.
OptimalAdd(token, amount, threshold, last) ==
    LET bin_id == get_optimal_bin(target_active_id, token)
        remaining == IF last THEN BOOLEAN ELSE {FALSE}
    IN  IF worth_adding(amount, threshold)
        THEN \E e \in AddEnvs(lp[bin_id]), remaining_raises \in remaining :
             \E r \in {add_liquidity(rows, ops, lp, bin_id,
                                      IF token = WAVAX THEN amount ELSE 0,
                                      IF token = BTCB THEN amount ELSE 0, e)} :
             LET success_count == call.success_count + (IF r.ret THEN 1 ELSE 0)
             IN  /\ rows' = r.rows /\ ops' = r.ops /\ lp' = r.lp
                 /\ txs' = r.txs
                 /\ Len(rows') <= MaxRows /\ Len(ops') <= MaxOps
                 /\ ChainOk(lp')
                 /\ call' = [Local EXCEPT
                               !.success_count = success_count,
                               !.adds = Append(call.adds, token),
                               !.allowance = r.allowance,
                               !.approved = BoolRet(r.approved),
                               !.inflight = call.inflight
                                            + (IF r.in_flight THEN 1 ELSE 0),
                               !.fault = AddFault(e),
                               !.submitted =
                                   IF ~r.mined THEN 0
                                   ELSE IF token = WAVAX THEN avax_wei(amount)
                                   ELSE btc_wei(amount),
                               !.mined = IF r.mined THEN "add" ELSE "none",
                               !.bin_id = bin_id,
                               !.ret = IF last
                                       THEN result(success_count, remaining_raises)
                                       ELSE "none"]
        ELSE /\ \E remaining_raises \in remaining :
                call' = [Local EXCEPT
                           !.ret = IF last
                                   THEN result(call.success_count,
                                               remaining_raises)
                                   ELSE "none"]
             /\ txs' = << >>
             /\ UNCHANGED << rows, ops, lp >>

AddWavax ==
    /\ pc = "add_wavax"
    /\ OptimalAdd(WAVAX, call.avax_to_add, AVAX_DUST, FALSE)
    /\ pc' = "add_btc"
    /\ UNCHANGED << activeId, calls, fin, fout, menu >>

\* The second add and the return.
AddBtc ==
    /\ pc = "add_btc"
    /\ OptimalAdd(BTCB, call.btc_to_add, BTC_DUST, TRUE)
    /\ pc' = "done"
    /\ UNCHANGED << activeId, calls, fin, fout, menu >>

loop_continues_unless_raised(ret) == ret # "raised"

\* main(), lines 338-343: an exception of the tick is caught and printed,
\* and the loop goes on as it does after a tick that returned.
loop_continues(ret) == TRUE

\* The operation's result has been shown; back to the menu or the loop.
Return ==
    /\ pc = "done"
    /\ loop_continues(call.ret)
    /\ pc' = "idle"
    /\ call' = NoCall
    /\ txs' = << >>
    /\ UNCHANGED << activeId, lp, rows, ops, calls, fin, fout, menu >>

\* signal_handler (lines 18-21): SIGINT makes the interpreter run
\* sys.exit(0) wherever the monitor is, asleep between ticks or between two
\* calls of an operation in progress; SystemExit is caught by no
\* "except Exception", and the process ends (lines 348-350: db.close()).
Sigint ==
    /\ pc \in {"idle", "withdraw", "budget", "seed", "add_wavax", "add_btc"}
    /\ pc' = "exited"
    /\ UNCHANGED << activeId, lp, rows, ops, call, txs, calls, fin, fout, menu >>

Next ==
    \/ Return
    \/ ActiveBinMoves
    \/ GetAllLpBalances
    \/ AddLiquidity
    \/ RemoveLiquidity
    \/ RemoveAllLiquidity
    \/ Tick
    \/ Withdraw
    \/ Budget
    \/ Seed
    \/ AddWavax
    \/ AddBtc
    \/ Sigint

Spec == Init /\ [][Next]_vars

\* The monitor loop goes on to its next iteration after a tick (lines
\* 290-343: "while True", with only a sleep after the tick).
SpecLive == Spec /\ WF_vars(Return)

\* The monitor loop under fair scheduling of its ticks: it goes on to its
\* next iteration after a tick, and the next tick comes about (lines
\* 290-343: "while True" with CHECK_INTERVAL and a sleep).
SpecTicks == Spec /\ WF_vars(Return) /\ WF_vars(Tick)

(***************************************************************************)
(* The monitor (auto_rebalance.py) and the interactive program (main.py)   *)
(* as two processes.  Each opens its own connection to the same database   *)
(* file (auto_rebalance.py line 260, main.py line 407; database.py lines   *)
(* 9-19) and nothing keeps the two from running at once.  Every statement  *)
(* of database.py commits by itself, so the calls of one process           *)
(* interleave with those of the other between any two statements.  The     *)
(* interactive program is modelled in an add_liquidity call whose          *)
(* transaction confirms, in two steps: up to its read of the bin's row     *)
(* (pool.py lines 383-406) and the write that follows (lines 407-413).     *)
(***************************************************************************)
MenuAddLookup ==
    /\ menu.pc = "idle"
    /\ calls < MaxCalls
    /\ calls' = calls + 1
    /\ \E token \in {WAVAX, BTCB} :
       \E bin_id \in {get_optimal_bin(activeId, token)} :
           /\ lp[bin_id] < MaxWei
           /\ lp' = [lp EXCEPT ![bin_id] = MaxWei]
           /\ ops' = record_operation(ops, "add", bin_id)
           /\ Len(ops') <= MaxOps
           /\ menu' = [pc |-> "upsert", bin_id |-> bin_id,
                       pos |-> get_position_by_bin(rows, bin_id),
                       lp_balance |-> get_lp_balance(lp', bin_id)]
    /\ UNCHANGED << activeId, rows, pc, call, txs, fin, fout >>

MenuAddUpsert ==
    /\ menu.pc = "upsert"
    /\ rows' = IF menu.pos # 0
               THEN update_position(rows, menu.pos, menu.lp_balance, TRUE)
               ELSE add_position(rows, menu.bin_id, menu.lp_balance)
    /\ Len(rows') <= MaxRows
    /\ menu' = NoMenu
    /\ UNCHANGED << activeId, lp, ops, pc, call, txs, calls, fin, fout >>

NextConcurrent ==
    \/ Return
    \/ ActiveBinMoves
    \/ Tick
    \/ Withdraw
    \/ Budget
    \/ Seed
    \/ AddWavax
    \/ AddBtc
    \/ MenuAddLookup
    \/ MenuAddUpsert

SpecConcurrent == Init /\ [][NextConcurrent]_vars

(***************************************************************************)
(* The decision engine on its own: should_rebalance and get_optimal_bin    *)
(* applied to every position list of at most MaxLen positions, every       *)
(* active bin and both tokens.                                             *)
(***************************************************************************)
SeqsUpTo(S, n) == UNION {[1..k -> S] : k \in 0..n}

PositionLists(active_id) ==
    SeqsUpTo({Position([b \in Bins |-> MaxWei], bin_id, active_id) :
                 bin_id \in Bins}, MaxLen)

InitPure ==
    /\ activeId = 1
    /\ lp = [b \in Bins |-> 0]
    /\ rows = << >>
    /\ ops = << >>
    /\ pc = "idle"
    /\ call = NoCall
    /\ txs = << >>
    /\ calls = 0
    /\ fin \in UNION {{[positions |-> positions, active_id |-> active_id,
                         token_type |-> token_type] :
                            positions \in PositionLists(active_id),
                            token_type \in {WAVAX, BTCB}} :
                       active_id \in Bins}
    /\ fout = NoFout
    /\ menu = NoMenu

ShouldRebalance ==
    /\ fout.fn = "none"
    /\ LET r == should_rebalance(fin.positions, fin.active_id)
       IN  fout' = [NoFout EXCEPT !.fn = "should_rebalance",
                                  !.rebalance = r.rebalance,
                                  !.reason = r.reason, !.bin_id = r.bin_id,
                                  !.distance = r.distance]
    /\ UNCHANGED << activeId, lp, rows, ops, pc, call, txs, calls, fin,
                   menu >>

\* get_optimal_bin, called twice with the same arguments.
GetOptimalBin ==
    /\ fout.fn = "none"
    /\ fout' = [NoFout EXCEPT
                  !.fn = "get_optimal_bin",
                  !.bin_id = get_optimal_bin(fin.active_id, fin.token_type),
                  !.again = get_optimal_bin(fin.active_id, fin.token_type)]
    /\ UNCHANGED << activeId, lp, rows, ops, pc, call, txs, calls, fin,
                   menu >>

NextPure == ShouldRebalance \/ GetOptimalBin

SpecPure == InitPure /\ [][NextPure]_vars

C2_OptimalBin ==
    fout.fn = "get_optimal_bin" =>
        /\ fin.token_type = WAVAX => fout.bin_id = fin.active_id + 1
        /\ fin.token_type = BTCB => fout.bin_id = fin.active_id - 1
        /\ fout.again = fout.bin_id

C2_Witness ==
    /\ fout.fn = "get_optimal_bin"
    /\ fin.token_type = BTCB
    /\ fin.active_id = MaxBin
    /\ fout.bin_id = MaxBin - 1

ActiveRows(rs) == {i \in 1..Len(rs) : rs[i].active}

ActiveBins(rs) == {rs[i].bin_id : i \in ActiveRows(rs)}

\* C3: in every reachable state of the store each bin has at most one
\* position row with active = true.
C3_OneActiveRowPerBin ==
    \A i, j \in ActiveRows(rows) : rows[i].bin_id = rows[j].bin_id => i = j

\* The store after an insert by the scan, a deactivation and an upsert: an
\* inactive row and two active rows.
C3_Witness ==
    /\ Len(rows) = MaxRows
    /\ Cardinality(ActiveRows(rows)) = 2
    /\ Len(ops) >= 2

\* C4: when phase 1 of rebalance_liquidity fails, rebalance_liquidity
\* returns false there and then, and no token approval and no add-liquidity
\* transaction is sent in that call.
C4_Phase1FailureAborts ==
    (call.op = "rebalance_liquidity" /\ call.success = "false") =>
        /\ pc = "done"
        /\ call.ret = "false"
        /\ \A i \in DOMAIN txs : txs[i].tx \notin {"approve", "add"}

\* A rebalance whose remove transaction was sent and reverted.
C4_Witness ==
    /\ call.op = "rebalance_liquidity"
    /\ call.success = "false"
    /\ call.status = "reverted"
    /\ \E i \in DOMAIN txs : txs[i].tx = "remove"

\* The step of rebalance_liquidity in which the withdrawal transaction
\* reverts.
WithdrawReverts == pc = "withdraw" /\ call'.status = "reverted"

\* The row a reconciliation leaves for a bin it has read.
LiveRow(lpc, bin_id) ==
    [bin_id |-> bin_id,
     amount |-> IF lpc[bin_id] > 0 THEN FromWei(lpc[bin_id]) ELSE 0,
     active |-> lpc[bin_id] > 0]

C6_StoreMatchesChainAfterRebalance ==
    (pc = "done" /\ call.op = "rebalance_liquidity" /\ call.ret = "true") =>
        ActiveBins(rows) = Held(lp)

\* The step of rebalance_liquidity in which the withdrawal transaction is
\* sent.
WithdrawSends == pc = "withdraw" /\ call'.status \in {"ok", "reverted"}

\* C7 as stated: the remove-liquidity transaction of phase 1 lists every
\* bin in which the wallet holds a positive LP balance, each once and with
\* its amount, and after it confirms the wallet holds no LP balance.
C7_WithdrawListsEveryHeldBin ==
    [][WithdrawSends =>
          /\ {call'.bin_ids[i] : i \in DOMAIN call'.bin_ids} = Held(lp)
          /\ \A i, j \in DOMAIN call'.bin_ids :
                call'.bin_ids[i] = call'.bin_ids[j] => i = j
          /\ \A i \in DOMAIN call'.bin_ids :
                call'.amounts[i] = lp[call'.bin_ids[i]]
          /\ call'.status = "ok" => Held(lp') = {}]_vars

NoDuplicates(seq) == \A i, j \in DOMAIN seq : seq[i] = seq[j] => i = j

\* C8: get_all_lp_balances never returns two positions with the same bin
\* id, on the cache path or the scan path, called from the menu, the
\* monitor loop or remove_all_liquidity.
C8_NoDuplicateBins ==
    /\ NoDuplicates([i \in DOMAIN call.positions |-> call.positions[i].bin_id])
    /\ NoDuplicates(call.bin_ids)

\* get_all_lp_balances has returned two positions.
C8_Witness ==
    /\ call.op = "get_all_lp_balances"
    /\ call.ret = "returned"
    /\ Len(call.positions) = 2

\* The second of two get_all_lp_balances calls in succession with the same
\* arguments returns (no chain step lies between them).
SecondCall == call.op = "get_all_lp_balances" /\ call'.repeat

OperationStep == << pc, call >>' # << pc, call >> /\ pc' # "exited"

\* The bins of the transaction mined in this step.
MinedBins ==
    IF call'.mined = "remove_all"
    THEN {call'.bin_ids[i] : i \in DOMAIN call'.bin_ids}
    ELSE {call'.bin_id}

\* C10 as stated: every confirmed add, remove and remove-all is followed in
\* the same step by exactly one Operation record of its type and by the
\* upsert or deactivation of the rows of its bins, so that no active row
\* of these bins disagrees with the chain after the transaction.
C10_MutationRecorded ==
    [][(OperationStep /\ call'.mined # "none") =>
          /\ ops' = Append(ops, [operation_type |-> call'.mined])
          /\ \A i \in ActiveRows(rows') :
                rows'[i].bin_id \in MinedBins => rows'[i] = LiveRow(lp', rows'[i].bin_id)
          /\ call'.mined = "add" => call'.bin_id \in ActiveBins(rows')]_vars

\* The add steps of a rebalance whose phase 1 has succeeded.
WavaxAddStep ==
    pc = "add_wavax" /\ pc' = "add_btc" /\ call.op = "rebalance_liquidity"

BtcAddStep ==
    pc = "add_btc" /\ pc' = "done" /\ call.op = "rebalance_liquidity"

\* The rows of the bins other than bin_id.
RowsExcept(rs, bin_id) ==
    [i \in {j \in 1..Len(rs) : rs[j].bin_id # bin_id} |-> rs[i]]

C12_RebalanceFinishes ==
    [][(/\ call.op = "rebalance_liquidity"
        /\ call.success = "true"
        /\ pc \in {"budget", "add_wavax"}) => pc' # "exited"]_vars

\* The operations of the monitor loop.
MonitorOps == {"tick", "rebalance_liquidity", "add_initial_positions"}

\* C13: an exception raised inside a monitor tick (by the active-bin read,
\* the reconciliation, the balance reads, the rebalance or the seed
\* deposit) does not end the loop: the loop reaches its next tick.
C13_TickExceptionNotFatal ==
    (pc = "done" /\ call.op \in MonitorOps /\ call.ret = "raised")
        ~> (pc = "idle")

\* A balance read of rebalance_liquidity has raised after the withdrawal.
C13_Witness ==
    /\ pc = "done"
    /\ call.op = "rebalance_liquidity"
    /\ call.ret = "raised"
    /\ call.success = "true"

\* The step of the monitor loop that starts a tick.
TickStep == pc = "idle" /\ call'.op \in MonitorOps

\* C14: on a tick that resolves no position and reads wallet balances at
\* or below the dust thresholds (WAVAX <= 0.01 and BTC.b <= 0.0001), the
\* tick ends without add_initial_positions and no transaction is sent:
\* the chain and the operation log are as before.
C14_NoSeedAtOrBelowDust ==
    [][(/\ TickStep
        /\ call'.positions = << >>
        /\ call'.avax_balance <= AVAX_DUST
        /\ call'.btc_balance <= BTC_DUST) =>
            /\ pc' = "done"
            /\ txs' = << >>
            /\ lp' = lp
            /\ ops' = ops]_vars

\* A tick has found no position and both balances exactly at the dust
\* thresholds.
C14_Witness ==
    /\ pc = "done"
    /\ call.op = "tick"
    /\ call.ret = "insufficient"
    /\ call.positions = << >>
    /\ call.avax_balance = AVAX_DUST
    /\ call.btc_balance = BTC_DUST

\* C15 as stated: the monitor and the interactive program never access
\* the store concurrently, so with both running each bin still has at most
\* one active row.
C15_ConcurrentOneActiveRowPerBin ==
    \A i, j \in 1..Len(rows) :
        (rows[i].active /\ rows[j].active /\ rows[i].bin_id = rows[j].bin_id)
            => i = j

\* C16: the rows of the operation log are never modified or deleted: in
\* every step the log before is a prefix of the log after.
C16_OperationLogAppendOnly ==
    [][/\ Len(ops') >= Len(ops)
       /\ SubSeq(ops', 1, Len(ops)) = ops]_vars

\* The log holds MaxOps records, of an add, of a remove_all and of another
\* operation after them.
C16_Witness ==
    /\ Len(ops) = MaxOps
    /\ ops[1].operation_type = "add"
    /\ ops[2].operation_type = "remove_all"

\* C17: every position row with active = false has amount = 0.
C17_InactiveRowHasZeroAmount ==
    \A i \in 1..Len(rows) : ~rows[i].active => rows[i].amount = 0

\* A row that held a positive amount has been deactivated by a remove_all
\* whose transaction left dust in the bin.
C17_Witness ==
    \E i \in 1..Len(rows) :
        /\ ~rows[i].active
        /\ rows[i].amount = 0
        /\ lp[rows[i].bin_id] > 0
        /\ \E k \in 1..Len(ops) : ops[k].operation_type = "remove_all"

\* The positions of the list before the i-th are within the threshold.
NoneBefore(positions, active_id, i) ==
    \A k \in 1..(i - 1) : Abs(positions[k].bin_id - active_id) < 2

\* C18: when should_rebalance returns true, the reason names the bin of
\* the first position of the list, in the order supplied, at distance
\* |bin_id - A| >= 2, and that position's distance.
C18_ReasonNamesFirstBreach ==
    (fout.fn = "should_rebalance" /\ fout.rebalance) =>
        \E i \in DOMAIN fin.positions :
            /\ Abs(fin.positions[i].bin_id - fin.active_id) >= 2
            /\ NoneBefore(fin.positions, fin.active_id, i)
            /\ fout.bin_id = fin.positions[i].bin_id
            /\ fout.distance = Abs(fin.positions[i].bin_id - fin.active_id)
            /\ fout.reason = "Position is away from active bin"

\* The first position at distance >= 2 has been named although a later
\* one is further away.
C18_Witness ==
    /\ fout.fn = "should_rebalance"
    /\ fout.rebalance
    /\ fout.distance = 2
    /\ \E k \in DOMAIN fin.positions :
          Abs(fin.positions[k].bin_id - fin.active_id) = 3

\* A step that is one get_all_lp_balances call: of the menu, or of a tick.
ReconcileStep ==
    \/ pc \in {"idle", "done"} /\ call'.op = "get_all_lp_balances"
    \/ TickStep

\* The bins of the positions a call returned.
ReturnedBins(c) == {c.positions[k].bin_id : k \in DOMAIN c.positions}

Verified(rs, lpc, failed) ==
    {i \in ActiveRows(rs) : rs[i].bin_id \notin failed /\ lpc[rs[i].bin_id] > 0}

\* C21: when get_all_lp_balances is called with use_db_first and at least
\* one stored active position verifies with a positive live balance, it
\* returns exactly the verified stored positions, each with its live
\* balance, and does not scan; the scan runs only when the cache path
\* yielded nothing or use_db_first is off.
C21_CacheTrusted ==
    [][ReconcileStep =>
          /\ (call'.cached /\ Verified(rows, lp, call'.failed) # {}) =>
                /\ ~call'.scanned
                /\ Len(call'.positions)
                     = Cardinality(Verified(rows, lp, call'.failed))
                /\ {call'.positions[k] : k \in DOMAIN call'.positions}
                     = {[bin_id |-> rows[i].bin_id,
                         lp_balance |-> FromWei(lp[rows[i].bin_id]),
                         distance_from_active |-> rows[i].bin_id - activeId] :
                           i \in Verified(rows, lp, call'.failed)}
          /\ call'.scanned =>
                \/ ~call'.use_db_first
                \/ Verified(rows, lp, call'.failed) = {}]_vars

\* The cache path has returned a verified stored position and no scan has
\* looked at another bin of the window, in which the wallet holds
\* liquidity the store does not know.
C21_Witness ==
    /\ call.op \in {"get_all_lp_balances", "tick"}
    /\ call.cached
    /\ ~call.scanned
    /\ ~call.read_failed
    /\ call.positions # << >>
    /\ \E b \in Held(lp) :
          /\ b \notin ReturnedBins(call)
          /\ b \notin ActiveBins(rows)
          /\ b \in ScanWindow(activeId, call.scan_range)

\* C22 as stated: whenever get_all_lp_balances scans, every bin of the
\* window whose live balance reads positive is returned and has an active
\* row in the store afterwards, whatever use_db_first is.
C22_ScanTracksEveryHeldBin ==
    [][(ReconcileStep /\ call'.scanned /\ ~call'.read_failed) =>
          \A b \in ScanWindow(activeId, call'.scan_range) :
              lp[b] > 0 =>
                  /\ b \in ReturnedBins(call')
                  /\ b \in ActiveBins(rows')]_vars

\* C23 as stated: the scan of get_all_lp_balances asks for the balance of
\* every id of the symmetric window [A - R, A + R] around the active bin
\* A, for every A and R, A < R included.
C23_ScanChecksSymmetricWindow ==
    [][(ReconcileStep /\ call'.scanned) =>
          \A b \in (activeId - call'.scan_range)..(activeId + call'.scan_range) :
              b \in call'.checked]_vars

\* C23, amended: the scan asks for the balance of exactly the ids of
\* [A - R, A + R] that are not negative; for A < R the window is cut at 0
\* and is not symmetric around A.
C23_ScanChecksClippedWindow ==
    [][(ReconcileStep /\ call'.scanned) =>
          call'.checked =
              {b \in (activeId - call'.scan_range)..(activeId + call'.scan_range) :
                  b >= 0}]_vars

\* A scan with a half-width above the active bin has asked for bin 0 and
\* has returned a position.
C23_Witness ==
    /\ call.op = "get_all_lp_balances"
    /\ call.scanned
    /\ call.scan_range > activeId
    /\ 0 \in call.checked
    /\ call.positions # << >>

WavaxStep == pc = "add_wavax" /\ pc' = "add_btc"

BtcStep == pc = "add_btc" /\ pc' = "done"

\* The step sends a token approval or an add-liquidity transaction.
SendsAdd == \E i \in DOMAIN txs' : txs'[i].tx \in {"approve", "add"}

\* C25: in the redeposit of a rebalance and of a seed deposit,
\* add_liquidity is called for WAVAX only when the budgeted amount is
\* above 0.01 and for BTC.b only when it is above 0.0001, and at most once
\* per token in one rebalance or seed call; a step that does not call it
\* sends no transaction.
C25_AddsGatedByDust ==
    [][/\ WavaxStep =>
            /\ call'.adds \in {call.adds, Append(call.adds, WAVAX)}
            /\ call'.adds # call.adds => call.avax_to_add > AVAX_DUST
            /\ call'.adds = call.adds => ~SendsAdd
       /\ BtcStep =>
            /\ call'.adds \in {call.adds, Append(call.adds, BTCB)}
            /\ call'.adds # call.adds => call.btc_to_add > BTC_DUST
            /\ call'.adds = call.adds => ~SendsAdd
       /\ (~WavaxStep /\ ~BtcStep) => call'.adds \in {call.adds, << >>}
       /\ NoDuplicates(call'.adds)]_vars

\* A seed deposit has skipped the WAVAX add and has made the BTC.b add.
C25_Witness ==
    /\ pc = "done"
    /\ call.op = "add_initial_positions"
    /\ call.adds = << BTCB >>
    /\ call.success_count = 1

\* A step in which the add-liquidity transaction of the token is mined.
WavaxAdded == WavaxStep /\ call'.mined = "add"

BtcAdded == BtcStep /\ call'.mined = "add"

\* C26 as stated: the token amount an add of the redeposit submits never
\* exceeds the wallet balance read for the budget minus the reserve, and a
\* successful add never leaves the wallet's balance of the token at zero.
\* (WAVAX in units of the reserve; BTC.b in units of the reserve, of which
\* a satoshi has SATOSHI.)
C26_AddLeavesReserve ==
    [][/\ WavaxAdded =>
            /\ call'.submitted <= call.avax_held - AVAX_RESERVE
            /\ call.avax_held - call'.submitted > 0
       /\ BtcAdded =>
            /\ call'.submitted * SATOSHI <= call.btc_held * SATOSHI - BTC_RESERVE
            /\ call.btc_held - call'.submitted > 0]_vars

\* A step that is one add_liquidity call: of the menu, of a rebalance or of
\* a seed deposit.
AddLiquidityStep ==
    \/ pc = "idle" /\ call'.op = "add_liquidity"
    \/ (WavaxStep \/ BtcStep) /\ call'.adds # call.adds

\* The add_liquidity call of the step returned False.
AddReturnedFalse ==
    IF call'.op = "add_liquidity" THEN call'.ret = "false"
    ELSE call'.success_count = call.success_count

Slot(token) == IF token = WAVAX THEN "avax" ELSE "btc"

\* C27: an add-liquidity transaction is sent only after the allowance of
\* its token for the router has been read and the approval has returned
\* True, and after the approve transaction if there is one; no approve
\* transaction is sent when the allowance covers the amount; and when the
\* approval fails no add-liquidity transaction is sent, add_liquidity
\* returns False and the chain and the store are as before.
C27_AllowanceBeforeAdd ==
    [][AddLiquidityStep =>
          /\ \A i \in DOMAIN txs' :
                txs'[i].tx = "add" =>
                    /\ call'.allowance[Slot(txs'[i].token)] # "unread"
                    /\ call'.approved = "true"
                    /\ \A j \in DOMAIN txs' : txs'[j].tx = "approve" => j < i
          /\ \A token \in {WAVAX, BTCB} :
                call'.allowance[Slot(token)] = "covers" =>
                    \A i \in DOMAIN txs' :
                        ~(txs'[i].tx = "approve" /\ txs'[i].token = token)
          /\ call'.approved = "false" =>
                /\ \A i \in DOMAIN txs' : txs'[i].tx # "add"
                /\ AddReturnedFalse
                /\ lp' = lp /\ rows' = rows /\ ops' = ops]_vars

\* A BTC.b add of a rebalance has been sent without an approve transaction,
\* the allowance covering the amount.
C27_Witness ==
    /\ pc = "done"
    /\ call.op = "rebalance_liquidity"
    /\ call.allowance.btc = "covers"
    /\ call.approved = "true"
    /\ txs = << [tx |-> "add", token |-> BTCB] >>

\* A position of the list is DISTANCE_THRESHOLD bins or more from the
\* active bin.
SomeAway(positions, active_id) ==
    \E i \in DOMAIN positions :
        Abs(positions[i].bin_id - active_id) >= DISTANCE_THRESHOLD

\* C28: a monitor tick calls rebalance_liquidity only if the positions it
\* resolved are not empty and one of them is DISTANCE_THRESHOLD bins or
\* more from the active bin the tick read, and add_initial_positions only
\* if it resolved no position; the operation a tick has started never
\* turns into the other one.
C28_TickBranches ==
    [][/\ TickStep =>
            /\ call'.op = "rebalance_liquidity" =>
                  /\ call'.positions # << >>
                  /\ SomeAway(call'.positions, call'.active_id)
                  /\ pc' = "withdraw"
            /\ call'.op = "add_initial_positions" =>
                  /\ call'.positions = << >>
                  /\ pc' = "seed"
            /\ ~SomeAway(call'.positions, call'.active_id) =>
                  call'.op # "rebalance_liquidity"
       /\ call.op \in {"rebalance_liquidity", "add_initial_positions"} =>
            call'.op \in {call.op, "none"}
       /\ pc' = "withdraw" => call'.op = "rebalance_liquidity"
       /\ pc' = "seed" => call'.op = "add_initial_positions"]_vars

\* A tick has resolved a position one bin from the active bin and has not
\* rebalanced.
C28_Witness ==
    /\ pc = "done"
    /\ call.op = "tick"
    /\ call.ret = "no_rebalance"
    /\ \E i \in DOMAIN call.positions :
          Abs(call.positions[i].bin_id - call.active_id) = 1

\* C29 as stated: within a monitor tick, a rebalance or a menu operation, a
\* transaction is sent only after every transaction the operation has sent
\* before has been mined.
C29_OneWriteInFlight ==
    [][(OperationStep /\ txs' # << >>) => call.inflight = 0]_vars

\* A step that calls one gateway write from a menu.
MenuWriteStep ==
    /\ pc \in {"idle", "done"}
    /\ call'.op \in {"add_liquidity", "remove_liquidity", "remove_all_liquidity"}
    /\ call' # call

\* The step that calls remove_all_liquidity for a rebalance.
WithdrawStep == pc = "withdraw" /\ pc' \in {"budget", "done"}

\* What an approval or a transaction does when it does not succeed.
Faults == {"revert", "raise", "pending"}

\* C30: approve_token, approve_lp_tokens, add_liquidity, remove_liquidity
\* and remove_all_liquidity return False whenever an approval or the
\* transaction raised, reverted or was not seen mined, or the reconciliation
\* or the bookkeeping raised; each of them returns a boolean to its caller,
\* which goes on with it.
C30_WriteFailureReturnsFalse ==
    [][/\ MenuWriteStep =>
            /\ call'.ret \in {"true", "false"}
            /\ call'.fault => call'.ret = "false"
       /\ WithdrawStep =>
            /\ call'.success \in {"true", "false"}
            /\ call'.fault => call'.success = "false" /\ call'.ret = "false"
       /\ AddLiquidityStep =>
            /\ call'.approved \in {"true", "false"}
            /\ call'.fault => AddReturnedFalse
       /\ \A outcome \in Faults :
            /\ ~approve_lp_tokens(outcome).ok
            /\ \A token \in {WAVAX, BTCB} : ~approve_token(token, outcome).ok]_vars

\* The redeposit of a rebalance has gone on after an add whose receipt wait
\* raised: the add returned False and was not counted.
C30_Witness ==
    /\ pc = "add_btc"
    /\ call.op = "rebalance_liquidity"
    /\ call.fault
    /\ call.inflight = 1
    /\ call.approved = "true"
    /\ call.success_count = 0

\* C31 as stated: add_liquidity returns True if and only if its
\* add-liquidity transaction was mined with status 1, also when the store
\* fails after the receipt; and a rebalance or a seed deposit that returns
\* False has had no add mined in its last step.
C31_AddTrueIffMined ==
    [][/\ AddLiquidityStep => (~AddReturnedFalse <=> call'.mined = "add")
       /\ (BtcStep /\ call'.ret = "false") => call'.mined # "add"]_vars

\* C32 as stated: the monitor goes on to a seed deposit only when the wallet
\* holds no LP balance in any bin of the reconciliation's scan window, also
\* when reads of single bins have failed.
C32_SeedOnlyWithoutPositions ==
    [][(TickStep /\ pc' = "seed") =>
          \A b \in ScanWindow(activeId, LP_SCAN_RANGE) : lp[b] = 0]_vars

\* What the next monitor tick resolves when the active bin is still the one
\* the operation was called with and no read of the tick fails (main(),
\* line 306).
NextTick ==
    get_all_lp_balances(rows, lp, call.active_id, LP_SCAN_RANGE, TRUE,
                        ReadEnv({}, {}, 0))

\* C33 as stated: after a rebalance that returned True, the next monitor
\* tick (active bin not moved, no read of the tick failing) resolves only
\* positions at distance 1 from the active bin, and should_rebalance
\* returns False for them.
C33_NoThrashing ==
    (pc = "done" /\ call.op = "rebalance_liquidity" /\ call.ret = "true") =>
        /\ \A i \in DOMAIN NextTick.positions :
              Abs(NextTick.positions[i].bin_id - call.active_id) = 1
        /\ ~should_rebalance(NextTick.positions, call.active_id).rebalance

\* What a later monitor tick resolves at the active bin of the moment when
\* none of its reads fails (main(), line 306).
LaterTick ==
    get_all_lp_balances(rows, lp, activeId, LP_SCAN_RANGE, TRUE,
                        ReadEnv({}, {}, 0))

\* C34 as stated: when a rebalance has withdrawn the liquidity (no read
\* failing) and has returned False with no add mined, a later monitor tick
\* whose reads work resolves an empty position set, which is what sends it
\* to the seed deposit.
C34_RecoveryBySeed ==
    (/\ pc = "done" /\ call.op = "rebalance_liquidity"
     /\ call.success = "true" /\ call.ret = "false" /\ ~call.unread
     /\ \A b \in Bins : Abs(b - call.active_id) = 1 => lp[b] = 0) =>
        LaterTick.positions = << >>

\* The wallet holds a position that the store tracks, 2 or more bins from
\* the active bin.
FarTracked ==
    \E i \in DOMAIN rows :
        /\ rows[i].active
        /\ lp[rows[i].bin_id] > 0
        /\ Abs(rows[i].bin_id - activeId) >= DISTANCE_THRESHOLD

\* C35: with the monitor between two ticks and a tracked position 2 or more
\* bins from the active bin, a rebalance is eventually invoked, unless the
\* position stops being so, the process is stopped by SIGINT, a read of the
\* tick fails, or what runs next is an operation of the menu and not a tick.
C35_FarPositionIsRebalanced ==
    (pc = "idle" /\ calls < MaxCalls /\ FarTracked)
        ~> \/ call.op = "rebalance_liquidity"
           \/ ~FarTracked
           \/ pc = "exited"
           \/ call.read_failed
           \/ call.ret = "raised"
           \/ pc = "done" /\ call.op \notin MonitorOps

\* A tick has resolved a stored position on the cache path, every read
\* working, and has invoked the rebalance.
C35_Witness ==
    /\ pc = "withdraw"
    /\ call.op = "rebalance_liquidity"
    /\ call.cached /\ ~call.scanned /\ ~call.read_failed
    /\ calls = MaxCalls

\* C36: a row that has been deactivated is never written again: it stays
\* inactive with amount 0 whatever operation follows; and an add that
\* returned True leaves an active row for its bin, which is therefore a new
\* row when the bin had only deactivated ones.
C36_DeactivatedRowStays ==
    [][/\ \A i \in DOMAIN rows :
            ~rows[i].active => (i \in DOMAIN rows' /\ rows'[i] = rows[i])
       /\ (AddLiquidityStep /\ ~AddReturnedFalse) =>
            get_position_by_bin(rows', call'.bin_id) # 0]_vars

\* A bin has a deactivated row and, after it, a new active row: a rebalance
\* has withdrawn the position of a bin and a later scan or add has found the
\* bin without an active row.
C36_Witness ==
    \E i, j \in DOMAIN rows :
        /\ i < j
        /\ rows[i].bin_id = rows[j].bin_id
        /\ ~rows[i].active /\ rows[i].amount = 0
        /\ rows[j].active /\ rows[j].amount > 0

\* The operation in progress is a rebalance.
Rebalancing == call.op = "rebalance_liquidity"

\* C37: the redeposit of a rebalance targets bin A + 1 with WAVAX and bin
\* A - 1 with BTC.b, where A is the active bin the monitor tick read before
\* it called rebalance_liquidity: A is kept through the withdrawal and the
\* budget, whatever the active bin does meanwhile, and an add changes the
\* chain in its target bin only.
C37_TargetsFollowTickActiveBin ==
    [][/\ (TickStep /\ call'.op = "rebalance_liquidity") =>
            call'.active_id = activeId
       /\ (Rebalancing /\ pc # "done" /\ pc' # "exited") =>
            call'.active_id = call.active_id
       /\ (Rebalancing /\ AddLiquidityStep) =>
            /\ WavaxStep => call'.bin_id = call.active_id + 1
            /\ BtcStep => call'.bin_id = call.active_id - 1
            /\ \A b \in Bins : b # call'.bin_id => lp'[b] = lp[b]]_vars

\* The active bin has moved during a rebalance and the WAVAX add has been
\* mined in the bin above the active bin of the tick.
C37_Witness ==
    /\ pc = "add_btc"
    /\ Rebalancing
    /\ call.mined = "add"
    /\ activeId # call.active_id
    /\ call.bin_id = call.active_id + 1
    /\ lp[call.bin_id] > 0

====
